---- MODULE Spec2Model ----
(***************************************************************************)
(* Model of the AevIP synchronisation core of cmsjs:                       *)
(*   - ViewportSync  (src/src/core/aevip/viewport-sync.js, lines 7-488):   *)
(*     node registry, visibility handling, deferred delivery of patches;  *)
(*   - AevIPProtocol (same file, lines 501-836): outbound patch queue,     *)
(*     retry with backoff, pause/resume, and the diff/apply functions.     *)
(* The two classes share no mutable state, so each has its own             *)
(* specification (SpecViewport, SpecProtocol) over its own variables; the  *)
(* diff and apply functions are run on pairs of values (SpecContent).      *)
(***************************************************************************)
EXTENDS Integers, Sequences, FiniteSets, TLC

(***************************************************************************)
(* Bounds of the model.                                                    *)
(***************************************************************************)
NumElements == 2      \* DOM elements carrying data-aevip-id
NumContentIds == 2    \* distinct content ids used by patches
MaxPatches == 2       \* patches handed to ViewportSync.handlePatch
MaxApply == 1         \* the host reports intersections while stats.updatesApplied is below it
MaxObserved == 2      \* cap of stats.totalObserved

Elements == 1..NumElements
ContentIds == 1..NumContentIds

\* contentId value of a patch without metadata.contentId, and of a metadata
\* object created by handleIntersection for an element that is not registered
NoContentId == 0

\* marker of an element that is not a key of the observedElements Map
NotObserved == [contentId |-> NoContentId, priority |-> "none", isVisible |-> FALSE, registered |-> FALSE]

\* element.getAttribute('data-aevip-id'): stable per element; elements 1 and 2
\* share content id 1, every further element carries content id 2
getAttribute(el) == IF el <= 2 THEN 1 ELSE 2

(***************************************************************************)
(* JavaScript Map, as the set of its <<key, value>> entries.               *)
(***************************************************************************)
MapHas(m, k) == \E pr \in m : pr[1] = k

MapGet(m, k) == (CHOOSE pr \in m : pr[1] = k)[2]

MapDelete(m, k) == {pr \in m : pr[1] # k}

MapSet(m, k, v) == MapDelete(m, k) \cup {<<k, v>>}

(***************************************************************************)
(* Content values: the JSON values patches are computed from and applied   *)
(* to.  A value is null, a number, or an object whose properties hold      *)
(* numbers (one level).  Undefined marks an absent property.  Property     *)
(* names are single characters other than "/", and the properties of an    *)
(* object were inserted in the order of KeyOrder.                          *)
(***************************************************************************)
MaxValue == 4         \* the numbers are 1..MaxValue

KeyOrder == <<"a", "b", "c">>
Keys == {KeyOrder[i] : i \in 1..Len(KeyOrder)}

\* the value `undefined` of a property that is absent
Undefined == 0

NoFields == [k \in Keys |-> Undefined]

Null == [kind |-> "null", prim |-> Undefined, fields |-> NoFields]

Prim(n) == [kind |-> "number", prim |-> n, fields |-> NoFields]

Obj(f) == [kind |-> "object", prim |-> Undefined, fields |-> f]

\* the value `undefined` at top level
UndefinedValue == [kind |-> "undefined", prim |-> Undefined, fields |-> NoFields]

\* a statement threw: the exception stands in for the value
TypeError == [kind |-> "TypeError", prim |-> Undefined, fields |-> NoFields]
SyntaxError == [kind |-> "SyntaxError", prim |-> Undefined, fields |-> NoFields]

IsThrown(v) == v.kind \in {"TypeError", "SyntaxError"}

Values ==
  {Null} \cup {Prim(n) : n \in 1..MaxValue}
         \cup {Obj(f) : f \in [Keys -> {Undefined} \cup 1..MaxValue]}

\* typeof v
typeof(v) == IF v.kind \in {"null", "object"} THEN "object" ELSE v.kind

\* v?.[key]
Get(v, key) == IF v.kind = "object" THEN v.fields[key] ELSE Undefined

\* Object.keys(v || {})
ObjectKeys(v) == SelectSeq(KeyOrder, LAMBDA k : Get(v, k) # Undefined)

\* JSON.stringify(v).length
StringifyLength(v) ==
  CASE v.kind = "null" -> 4
    [] v.kind = "number" -> 1
    [] OTHER -> LET n == Len(ObjectKeys(v))
                IN IF n = 0 THEN 2 ELSE 2 + 5 * n + (n - 1)

(***************************************************************************)
(* computeDiff(before, after): the list of operations                      *)
(* [op, path, value]; a path is the sequence of its characters.            *)
(***************************************************************************)
\* Variant: the three tests are separate `if`s rather than an else-if chain,
\* so a removed key also reaches the comparison of the serialized values and
\* gets a replace whose value is undefined.
OperationFor_NoElse(before, after, key) ==
  LET beforeVal == Get(before, key)
      afterVal == Get(after, key)
  IN (IF beforeVal = Undefined /\ afterVal # Undefined
      THEN <<[op |-> "add", path |-> <<"/", key>>, value |-> Prim(afterVal)]>>
      ELSE <<>>)
     \o (IF beforeVal # Undefined /\ afterVal = Undefined
         THEN <<[op |-> "remove", path |-> <<"/", key>>, value |-> UndefinedValue]>>
         ELSE <<>>)
     \o (IF beforeVal # afterVal /\ beforeVal # Undefined
         THEN <<[op |-> "replace", path |-> <<"/", key>>,
                 value |-> IF afterVal = Undefined THEN UndefinedValue ELSE Prim(afterVal)]>>
         ELSE <<>>)

\* the operation pushed for one key of allKeys, as a list of zero or one
OperationFor(before, after, key) ==
  LET beforeVal == Get(before, key)
      afterVal == Get(after, key)
  IN IF beforeVal = Undefined /\ afterVal # Undefined
     THEN <<[op |-> "add", path |-> <<"/", key>>, value |-> Prim(afterVal)]>>
     ELSE IF beforeVal # Undefined /\ afterVal = Undefined
     THEN <<[op |-> "remove", path |-> <<"/", key>>, value |-> UndefinedValue]>>
     ELSE IF beforeVal # afterVal
     THEN <<[op |-> "replace", path |-> <<"/", key>>, value |-> Prim(afterVal)]>>
     ELSE <<>>

RECURSIVE ForEachKey(_, _, _)
\* for (const key of allKeys) { ... patches.push(...) }
ForEachKey(before, after, keys) ==
  IF keys = <<>> THEN <<>>
  ELSE OperationFor(before, after, Head(keys)) \o ForEachKey(before, after, Tail(keys))

\* variant: a key that is gone from `after` yields no operation
computeDiff_NoRemove(before, after) ==
  IF typeof(before) = "object" /\ typeof(after) = "object"
  THEN LET allKeys == ObjectKeys(before)
                        \o SelectSeq(ObjectKeys(after), LAMBDA k : Get(before, k) = Undefined)
       IN SelectSeq(ForEachKey(before, after, allKeys), LAMBDA o : o.op # "remove")
  ELSE IF before # after
       THEN <<[op |-> "replace", path |-> <<>>, value |-> after]>>
       ELSE <<>>

computeDiff(before, after) ==
  IF typeof(before) = "object" /\ typeof(after) = "object"
  THEN LET allKeys == ObjectKeys(before)
                        \o SelectSeq(ObjectKeys(after), LAMBDA k : Get(before, k) = Undefined)
       IN ForEachKey(before, after, allKeys)
  ELSE IF before # after
       THEN <<[op |-> "replace", path |-> <<>>, value |-> after]>>
       ELSE <<>>

(***************************************************************************)
(* applyOperation(obj, operation).  The class body is strict code: writing *)
(* a property of null or of a number throws a TypeError.  With property    *)
(* names of one character the parts of a path are its characters other     *)
(* than the separator, and a path has at most one part, so the loops over  *)
(* the intermediate containers make no iteration.                          *)
(***************************************************************************)
\* path.split('/').filter(p => p)
pathParts(path) == SelectSeq(path, LAMBDA ch : ch # "/")

applyOperation(obj, operation) ==
  LET parts == pathParts(operation.path)
      last == parts[Len(parts)]
  IN IF IsThrown(obj) THEN obj
     ELSE IF operation.op \in {"add", "replace"}
     THEN IF parts = <<>> THEN operation.value
          ELSE IF obj.kind = "object"
               THEN [obj EXCEPT !.fields[last] = operation.value.prim]
               ELSE TypeError
     ELSE IF operation.op = "remove"
     THEN IF parts = <<>> THEN UndefinedValue
          ELSE IF obj.kind = "object"
               THEN [obj EXCEPT !.fields[last] = Undefined]
               ELSE IF obj.kind = "number" THEN obj
               ELSE TypeError
     ELSE obj

(***************************************************************************)
(* A patch is [diff, compressed]; patch.diff is [kind, ops]: an array of   *)
(* operations, the string compress() made of one, or missing.              *)
(***************************************************************************)
Array(ops) == [kind |-> "array", ops |-> ops]

\* compress(data): JSON.stringify(data), the text that lists the operations
compress(data) == [kind |-> "string", ops |-> data.ops]

\* decompress(data): JSON.parse(data); an array is first turned into the
\* text "" or "[object Object],...", which is no JSON text
decompress(data) ==
  IF data.kind = "string" THEN Array(data.ops) ELSE [kind |-> "SyntaxError", ops |-> <<>>]

\* JSON.stringify(operation).length
OperationLength(operation) ==
  LET name == CASE operation.op = "add" -> 3
                [] operation.op = "remove" -> 6
                [] OTHER -> 7
      head == 1 + (6 + name + 1) + (9 + Len(operation.path) + 1)
  IN IF operation.op = "remove" THEN head + 1
     ELSE head + 9 + StringifyLength(operation.value) + 1

RECURSIVE SumLength(_)
SumLength(ops) ==
  IF ops = <<>> THEN 0 ELSE OperationLength(Head(ops)) + SumLength(Tail(ops))

\* JSON.stringify(patch.diff).length for an array of operations
DiffLength(ops) ==
  IF ops = <<>> THEN 2 ELSE 2 + SumLength(ops) + (Len(ops) - 1)

\* config.compressionThreshold as configured for the model (the default is 1024)
compressionThreshold == 40

\* the patch { diff: computeDiff(before, after) } built without createPatch
PlainPatch(before, after) ==
  [diff |-> Array(computeDiff(before, after)), compressed |-> FALSE]

\* a patch without diff
MalformedPatch == [diff |-> [kind |-> "missing", ops |-> <<>>], compressed |-> FALSE]

createPatch(before, after) ==
  LET diff == computeDiff(before, after)
  IN IF DiffLength(diff) > compressionThreshold
     THEN [diff |-> compress(Array(diff)), compressed |-> TRUE]
     ELSE [diff |-> Array(diff), compressed |-> FALSE]

RECURSIVE ForEachOperation(_, _)
\* for (const operation of diff) result = this.applyOperation(result, operation)
ForEachOperation(result, diff) ==
  IF diff = <<>> THEN result
  ELSE ForEachOperation(applyOperation(result, Head(diff)), Tail(diff))

\* JSON.parse(JSON.stringify(obj)): `undefined` has no JSON text
DeepClone(obj) == IF obj.kind = "undefined" THEN SyntaxError ELSE obj

applyPatch(obj, patch) ==
  IF patch.diff.kind # "array" THEN obj
  ELSE LET diff == IF patch.compressed THEN decompress(patch.diff) ELSE patch.diff
       IN IF diff.kind = "SyntaxError" THEN SyntaxError
          ELSE ForEachOperation(DeepClone(obj), diff.ops)

(***************************************************************************)
(* The effect of applyPatchToElement on the element itself, for an element *)
(* of data-aevip-type 'json'.  An element is [content, updated, classList, *)
(* events]: the value its textContent denotes, whether data-aevip-updated  *)
(* is set, its classes, and the events dispatched on it.                   *)
(***************************************************************************)
NodeWith(content) ==
  [content |-> content, updated |-> FALSE, classList |-> {}, events |-> <<>>]

\* JSON.parse(element.textContent || '{}')
getElementContent(node) == node.content

\* element.textContent = JSON.stringify(content, null, 2); the text written
\* for `undefined` is empty and reads back as {}
setElementContent(node, content) ==
  [node EXCEPT !.content = IF content.kind = "undefined" THEN Obj(NoFields) ELSE content]

applyPatchToElement_dom(node, patch) ==
  LET currentContent == getElementContent(node)
      newContent == applyPatch(currentContent, patch)
  IN IF IsThrown(newContent)
     THEN [node EXCEPT !.classList = @ \cup {"aevip-error"},
                       !.events = Append(@, "aevip:error")]
     ELSE [setElementContent(node, newContent) EXCEPT
             !.updated = TRUE,
             !.classList = @ \cup {"aevip-updated"},
             !.events = Append(@, "aevip:updated")]

VARIABLES
  observedElements,   \* state.observedElements: element -> metadata
  visibleElements,    \* state.visibleElements: Set of elements
  pendingUpdates,     \* state.pendingUpdates: Map contentId -> patch
  stats,              \* state.stats
  ioTargets,          \* elements the IntersectionObserver currently observes
  ioTimer,            \* arguments held by the pending debounce timer (<<>>: no timer)
  patches,            \* history: content id of every patch received, in arrival order
  applied,            \* history: per element, the applications made to it, in order
  observedEvents      \* history: number of aevip:observed events dispatched

varsV == <<observedElements, visibleElements, pendingUpdates, stats, ioTargets,
           ioTimer, patches, applied, observedEvents>>

VARIABLES
  patchQueue,         \* state.patchQueue: the patches (by number) in queue order
  paused,             \* state.paused
  reconnectAttempts,  \* state.reconnectAttempts
  onError,            \* handlers.onError is set
  sends,              \* the sendPatchWithRetry sequences that have not settled yet
  started,            \* history: number of sendPatchWithRetry sequences started
  settled,            \* history: the sequence that was abandoned last, as it ended
  acked,              \* history: the patches the transport has acknowledged
  flushes,            \* the flushQueue runs started so far
  queued,             \* history: number of queuePatch calls (patches are numbered by it)
  held,               \* history: patches queued while paused, no resume() since
  detached,           \* the flushQueue runs whose resume() promise is pending and held by nobody
  unhandled           \* history: a promise held by nobody has rejected

varsP == <<patchQueue, paused, reconnectAttempts, onError, sends, started, settled,
           acked, flushes, queued, held, detached, unhandled>>

VARIABLES
  valBefore,          \* the content value a patch is made from and applied to
  valAfter,           \* the content value the patch is made for
  made,               \* the patch under test (NoPatch: none yet)
  result,             \* what applyPatch(valBefore, made) returned or threw (NotRun: not called)
  resultRef,          \* the object that result is ("none": not called)
  node                \* an element holding valBefore, and what applyPatchToElement made of it

varsC == <<valBefore, valAfter, made, result, resultRef, node>>

VARIABLES
  place,              \* where each tagged element is: "detached", "body" (a child
                      \* of document.body) or "section" (inside the untagged section);
                      \* "untracked" where the tree is not followed
  moTimer,            \* arguments held by the debounced MutationObserver callback
  reported,           \* history: the intersection state the host reported last per target
  lastSignal          \* history: the visibility event dispatched last on each element

varsO == <<place, moTimer, reported, lastSignal>>

VARIABLES
  clock,              \* Date.now(), in units of time
  lastHeartbeat,      \* state.lastHeartbeat
  nextTick,           \* when the setInterval timer of setupHeartbeat is due next
  destroyed           \* history: AevIPProtocol.destroy() has been called

varsH == <<clock, lastHeartbeat, nextTick, destroyed>>

VARIABLES
  latest,             \* the content value the sender diffed against last
  shown,              \* the target that is in visibleElements throughout
  covered,             \* the target of the same contentId that is not, until it is revealed
  deferred,           \* pendingUpdates.get(contentId) for the two targets' contentId
  revealed,           \* the second target is in visibleElements
  arrivals            \* history: number of patches that arrived for the contentId

varsD == <<latest, shown, covered, deferred, revealed, arrivals>>

vars == <<varsV, varsP, varsC, varsO, varsH, varsD>>

\* the ViewportSync state as one value, for the handlers that call each other
VS == [observedElements |-> observedElements, visibleElements |-> visibleElements,
       pendingUpdates |-> pendingUpdates, stats |-> stats, ioTargets |-> ioTargets,
       applied |-> applied, observedEvents |-> observedEvents]

SetVS(st) ==
  /\ observedElements' = st.observedElements
  /\ visibleElements' = st.visibleElements
  /\ pendingUpdates' = st.pendingUpdates
  /\ stats' = st.stats
  /\ ioTargets' = st.ioTargets
  /\ applied' = st.applied
  /\ observedEvents' = st.observedEvents

\* elements registered with the given content id (handlePatch's `elements`)
ElementsOf(st, contentId) ==
  {el \in Elements : st.observedElements[el].registered
                     /\ st.observedElements[el].contentId = contentId}

\* the content the elements of the document hold: element 1 is a 'json'
\* element whose text is "null", every further element one whose text is "{}"
ContentOf(element) == IF element = 1 THEN Null ELSE Obj(NoFields)

\* the diff of the patches passed to handlePatch: one operation, which sets
\* a property.  It throws on null and applies to every object, so what
\* applyPatchToElement makes of an element depends on ContentOf only.
WireDiff == Array(<<[op |-> "add", path |-> <<"/", "a">>, value |-> Prim(1)]>>)

(***************************************************************************)
(* applyPatchToElement(element, patch): the application is recorded in the *)
(* element's history together with the handler that made it, whether the   *)
(* element was in visibleElements at that moment, the event dispatched on  *)
(* the element and whether it got the class aevip-error.                   *)
(***************************************************************************)
\* per element, what applyPatchToElement makes of it
Applied ==
  [element \in Elements |->
     applyPatchToElement_dom(NodeWith(ContentOf(element)),
                             [diff |-> WireDiff, compressed |-> FALSE])]

applyPatchToElement(st, element, patch, via) ==
  LET nd == Applied[element]
  IN [st EXCEPT !.applied[element] =
        Append(@, [patch |-> patch, via |-> via,
                   visible |-> element \in st.visibleElements,
                   signal |-> nd.events[Len(nd.events)],
                   errored |-> "aevip-error" \in nd.classList])]

(***************************************************************************)
(* applyPendingUpdate(element, contentId)                                  *)
(***************************************************************************)
\* variant: the entry is never removed from the table
applyPendingUpdate_KeepEntry(st, element, contentId) ==
  IF ~MapHas(st.pendingUpdates, contentId) THEN st
  ELSE
    LET patch == MapGet(st.pendingUpdates, contentId)
        s1 == applyPatchToElement(st, element, patch, "applyPendingUpdate")
    IN [s1 EXCEPT !.stats.updatesApplied = @ + 1]

applyPendingUpdate(st, element, contentId) ==
  IF ~MapHas(st.pendingUpdates, contentId) THEN st
  ELSE
    LET patch == MapGet(st.pendingUpdates, contentId)
        s1 == applyPatchToElement(st, element, patch, "applyPendingUpdate")
        otherElements == ElementsOf(s1, contentId) \ {element}
        stillHasInvisible == \E el \in otherElements : el \notin s1.visibleElements
        s2 == IF ~stillHasInvisible
              THEN [s1 EXCEPT !.pendingUpdates = MapDelete(@, contentId)]
              ELSE s1
    IN [s2 EXCEPT !.stats.updatesApplied = @ + 1]

(***************************************************************************)
(* handleIntersection(entry), entry = [target, isIntersecting]             *)
(***************************************************************************)
\* Variant: the handler maintains the visible set and leaves metadata alone.
handleIntersection_SetOnly(st, entry) ==
  LET element == entry.target
  IN IF entry.isIntersecting
     THEN LET s2 == [st EXCEPT !.visibleElements = @ \cup {element}]
          IN [s2 EXCEPT !.stats.currentlyVisible = Cardinality(s2.visibleElements)]
     ELSE LET s2 == [st EXCEPT !.visibleElements = @ \ {element}]
          IN [s2 EXCEPT !.stats.currentlyVisible = Cardinality(s2.visibleElements)]

handleIntersection(st, entry) ==
  LET element == entry.target
      contentId == getAttribute(element)
      old == st.observedElements[element]
      \* `observedElements.get(element) || {}`: an unknown element gets a fresh
      \* metadata object without contentId and priority
      metadata == IF old.registered
                  THEN [old EXCEPT !.isVisible = entry.isIntersecting]
                  ELSE [contentId |-> NoContentId, priority |-> "undefined",
                        isVisible |-> entry.isIntersecting, registered |-> TRUE]
      s1 == [st EXCEPT !.observedElements[element] = metadata]
  IN IF entry.isIntersecting
     THEN LET s2 == [s1 EXCEPT !.visibleElements = @ \cup {element}]
              s3 == [s2 EXCEPT !.stats.currentlyVisible = Cardinality(s2.visibleElements)]
          IN IF MapHas(s3.pendingUpdates, contentId)
             THEN applyPendingUpdate(s3, element, contentId)
             ELSE s3
     ELSE LET s2 == [s1 EXCEPT !.visibleElements = @ \ {element}]
          IN [s2 EXCEPT !.stats.currentlyVisible = Cardinality(s2.visibleElements)]

(***************************************************************************)
(* observeElement(element) / unobserveElement(element)                     *)
(***************************************************************************)
\* variant: without the early return for an element already observed
observeElement_NoGuard(st, element) ==
  [st EXCEPT
     !.observedElements[element] =
        [contentId |-> getAttribute(element), priority |-> "normal",
         isVisible |-> FALSE, registered |-> TRUE],
     !.stats.totalObserved = @ + 1,
     !.ioTargets = @ \cup {element},
     !.observedEvents = @ + 1]

observeElement(st, element) ==
  IF st.observedElements[element].registered THEN st
  ELSE [st EXCEPT
          !.observedElements[element] =
             [contentId |-> getAttribute(element), priority |-> "normal",
              isVisible |-> FALSE, registered |-> TRUE],
          !.stats.totalObserved = @ + 1,
          !.ioTargets = @ \cup {element},
          !.observedEvents = @ + 1]

\* variant: the element stays in visibleElements
unobserveElement_KeepVisible(st, element) ==
  IF ~st.observedElements[element].registered THEN st
  ELSE [st EXCEPT
          !.ioTargets = @ \ {element},
          !.observedElements[element] = NotObserved]

unobserveElement(st, element) ==
  IF ~st.observedElements[element].registered THEN st
  ELSE [st EXCEPT
          !.ioTargets = @ \ {element},
          !.observedElements[element] = NotObserved,
          !.visibleElements = @ \ {element}]

(***************************************************************************)
(* handlePatch(patch), patch = [id, contentId]                             *)
(***************************************************************************)
RECURSIVE ApplyToAll_StopOnError(_, _, _)
\* variant: the forEach ends at the first element whose application fails
ApplyToAll_StopOnError(st, els, patch) ==
  IF els = {} THEN st
  ELSE LET el == CHOOSE x \in els : \A y \in els : x <= y
           s1 == applyPatchToElement(st, el, patch, "handlePatch")
           s2 == [s1 EXCEPT !.stats.updatesApplied = @ + 1]
       IN IF s1.applied[el][Len(s1.applied[el])].errored THEN s1
          ELSE ApplyToAll_StopOnError(s2, els \ {el}, patch)

RECURSIVE ApplyToAll(_, _, _)
\* visibleEls.forEach(el => { applyPatchToElement(el, patch); updatesApplied++ })
ApplyToAll(st, els, patch) ==
  IF els = {} THEN st
  ELSE LET el == CHOOSE x \in els : \A y \in els : x <= y
           s1 == applyPatchToElement(st, el, patch, "handlePatch")
           s2 == [s1 EXCEPT !.stats.updatesApplied = @ + 1]
       IN ApplyToAll(s2, els \ {el}, patch)

\* variant: an undelivered entry is kept when a newer patch arrives
handlePatch_FirstWins(st, patch) ==
  LET contentId == patch.contentId
      elements == ElementsOf(st, contentId)
      store(m) == IF MapHas(m, contentId) THEN m ELSE MapSet(m, contentId, patch)
  IN IF contentId = NoContentId THEN st
     ELSE IF elements = {}
     THEN [st EXCEPT !.pendingUpdates = store(@),
                     !.stats.updatesDeferred = @ + 1]
     ELSE LET visibleEls == {el \in elements : el \in st.visibleElements}
              invisibleEls == {el \in elements : el \notin st.visibleElements}
              s1 == ApplyToAll(st, visibleEls, patch)
          IN IF invisibleEls # {}
             THEN [s1 EXCEPT !.pendingUpdates = store(@),
                             !.stats.updatesDeferred = @ + Cardinality(invisibleEls)]
             ELSE s1

\* variant: the patch is applied to every target, visible or not
handlePatch_ApplyAll(st, patch) ==
  LET contentId == patch.contentId
      elements == ElementsOf(st, contentId)
  IN IF contentId = NoContentId THEN st
     ELSE IF elements = {}
     THEN [st EXCEPT !.pendingUpdates = MapSet(@, contentId, patch),
                     !.stats.updatesDeferred = @ + 1]
     ELSE LET invisibleEls == {el \in elements : el \notin st.visibleElements}
              s1 == ApplyToAll(st, elements, patch)
          IN IF invisibleEls # {}
             THEN [s1 EXCEPT !.pendingUpdates = MapSet(@, contentId, patch),
                             !.stats.updatesDeferred = @ + Cardinality(invisibleEls)]
             ELSE s1

handlePatch(st, patch) ==
  LET contentId == patch.contentId
      elements == ElementsOf(st, contentId)
  IN IF contentId = NoContentId THEN st
     ELSE IF elements = {}
     THEN [st EXCEPT !.pendingUpdates = MapSet(@, contentId, patch),
                     !.stats.updatesDeferred = @ + 1]
     ELSE LET visibleEls == {el \in elements : el \in st.visibleElements}
              invisibleEls == {el \in elements : el \notin st.visibleElements}
              s1 == ApplyToAll(st, visibleEls, patch)
          IN IF invisibleEls # {}
             THEN [s1 EXCEPT !.pendingUpdates = MapSet(@, contentId, patch),
                             !.stats.updatesDeferred = @ + Cardinality(invisibleEls)]
             ELSE s1

(***************************************************************************)
(* Initial state: the constructor, whose discoverElements() registers the  *)
(* tagged elements already in the document.                                *)
(***************************************************************************)
RECURSIVE ObserveAll(_, _)
ObserveAll(st, els) ==
  IF els = {} THEN st
  ELSE LET el == CHOOSE x \in els : \A y \in els : x <= y
       IN ObserveAll(observeElement(st, el), els \ {el})

EmptyVS ==
  [observedElements |-> [el \in Elements |-> NotObserved],
   visibleElements |-> {},
   pendingUpdates |-> {},
   stats |-> [totalObserved |-> 0, currentlyVisible |-> 0,
              updatesApplied |-> 0, updatesDeferred |-> 0],
   ioTargets |-> {},
   applied |-> [el \in Elements |-> <<>>],
   observedEvents |-> 0]

discoverElements(st, inDocument) == ObserveAll(st, inDocument)

InitViewport ==
  \E inDocument \in SUBSET Elements :
    LET st == discoverElements(EmptyVS, inDocument)
    IN /\ observedElements = st.observedElements
       /\ visibleElements = st.visibleElements
       /\ pendingUpdates = st.pendingUpdates
       /\ stats = st.stats
       /\ ioTargets = st.ioTargets
       /\ applied = st.applied
       /\ observedEvents = st.observedEvents
       /\ ioTimer = <<>>
       /\ patches = <<>>

(***************************************************************************)
(* Actions of ViewportSync, one per top-level handler.                     *)
(***************************************************************************)
\* the batches of entries the host's IntersectionObserver reports.  A batch
\* of several entries is handled entry by entry with nothing in between,
\* which leaves the state that consecutive callbacks of one entry each
\* leave, so the host is modelled as reporting one entry per callback.
Batches ==
  {<<entry>> : entry \in [target : ioTargets, isIntersecting : BOOLEAN]}

\* the observer calls the debounced function: clearTimeout, then a new timer
\* holding the arguments of this call only
IntersectionCallback ==
  /\ \E entries \in Batches :
       /\ stats.updatesApplied < MaxApply
       /\ ioTimer' = entries
  /\ UNCHANGED <<observedElements, visibleElements, pendingUpdates, stats,
                 ioTargets, patches, applied, observedEvents>>
  /\ UNCHANGED varsP
  /\ UNCHANGED <<varsC, varsD>>
  /\ UNCHANGED <<varsO, varsH>>

RECURSIVE ForEachEntry(_, _)
\* entries.forEach(entry => this.handleIntersection(entry))
ForEachEntry(st, entries) ==
  IF entries = <<>> THEN st
  ELSE ForEachEntry(handleIntersection(st, Head(entries)), Tail(entries))

\* the timer fires: `later` runs the debounced function on the held arguments
DebounceFire ==
  /\ ioTimer # <<>>
  /\ SetVS(ForEachEntry(VS, ioTimer))
  /\ ioTimer' = <<>>
  /\ UNCHANGED patches
  /\ UNCHANGED varsP
  /\ UNCHANGED <<varsC, varsD>>
  /\ UNCHANGED <<varsO, varsH>>

ObserveElement ==
  /\ stats.totalObserved < MaxObserved
  /\ \E el \in Elements : SetVS(observeElement(VS, el))
  /\ UNCHANGED <<ioTimer, patches>>
  /\ UNCHANGED varsP
  /\ UNCHANGED <<varsC, varsD>>
  /\ UNCHANGED <<varsO, varsH>>

UnobserveElement ==
  /\ \E el \in Elements : SetVS(unobserveElement(VS, el))
  /\ UNCHANGED <<ioTimer, patches>>
  /\ UNCHANGED varsP
  /\ UNCHANGED <<varsC, varsD>>
  /\ UNCHANGED <<varsO, varsH>>

HandlePatch ==
  /\ Len(patches) < MaxPatches
  /\ \E contentId \in ContentIds \cup {NoContentId} :
       LET patch == [id |-> Len(patches) + 1, contentId |-> contentId]
       IN /\ SetVS(handlePatch(VS, patch))
          /\ patches' = Append(patches, contentId)
  /\ UNCHANGED ioTimer
  /\ UNCHANGED varsP
  /\ UNCHANGED <<varsC, varsD>>
  /\ UNCHANGED <<varsO, varsH>>

NextViewport ==
  \/ IntersectionCallback
  \/ DebounceFire
  \/ ObserveElement
  \/ UnobserveElement
  \/ HandlePatch

(***************************************************************************)
(* The MutationObserver: the tree, the records the host delivers and the   *)
(* debounced callback.  Tagged elements are children of document.body or   *)
(* sit inside one untagged <section>, which is inserted and removed with   *)
(* the tagged elements it holds.                                           *)
(***************************************************************************)
\* the section has no data-aevip-id
Section == 0

\* a node of a mutation record: `element` is the tagged element the node is
\* (Section when node.hasAttribute('data-aevip-id') is false) and `tagged`
\* is what node.querySelectorAll('[data-aevip-id]') returns
ElementNode(el) == [element |-> el, tagged |-> {}]

SectionNode(els) == [element |-> Section, tagged |-> els]

ChildList(added, removed) ==
  [type |-> "childList", addedNodes |-> added, removedNodes |-> removed]

\* a change of data-aevip-id or data-aevip-priority (attributeFilter)
AttributesRecord == [type |-> "attributes", addedNodes |-> <<>>, removedNodes |-> <<>>]

RECURSIVE ForEachAdded(_, _)
\* mutation.addedNodes.forEach: the node itself when it is tagged, then every
\* tagged descendant
ForEachAdded(st, nodes) ==
  IF nodes = <<>> THEN st
  ELSE LET n == Head(nodes)
           s1 == IF n.element # Section THEN observeElement(st, n.element) ELSE st
       IN ForEachAdded(ObserveAll(s1, n.tagged), Tail(nodes))

RECURSIVE ForEachRemoved(_, _)
\* mutation.removedNodes.forEach: only the node itself, when it is registered
ForEachRemoved(st, nodes) ==
  IF nodes = <<>> THEN st
  ELSE LET n == Head(nodes)
       IN ForEachRemoved(
            IF n.element # Section /\ st.observedElements[n.element].registered
            THEN unobserveElement(st, n.element)
            ELSE st,
            Tail(nodes))

\* mutationBuffer.push(mutation) is undone by flushMutationBuffer at the end
\* of the same callback (splice(0)), so the buffer is empty between steps
handleMutation(st, mutation) ==
  ForEachRemoved(ForEachAdded(st, mutation.addedNodes), mutation.removedNodes)

RECURSIVE ForEachMutation(_, _)
\* mutations.forEach(mutation => this.handleMutation(mutation))
ForEachMutation(st, mutations) ==
  IF mutations = <<>> THEN st
  ELSE ForEachMutation(handleMutation(st, Head(mutations)), Tail(mutations))

\* the elements inside the section
InSection == {el \in Elements : place[el] = "section"}

\* The host changes the tree and calls the debounced callback with the
\* record: clearTimeout, then a new timer holding this call's records only.
Mutate(newPlace, record) ==
  /\ place' = newPlace
  /\ moTimer' = <<record>>
  /\ UNCHANGED <<reported, lastSignal>>
  /\ UNCHANGED <<varsV, varsP, varsC, varsH, varsD>>

\* appendChild(el) on document.body
InsertElement ==
  \E el \in Elements :
    /\ place[el] = "detached"
    /\ stats.totalObserved < MaxObserved
    /\ Mutate([place EXCEPT ![el] = "body"], ChildList(<<ElementNode(el)>>, <<>>))

\* appendChild(section) with the detached elements els inside it
InsertSection ==
  \E els \in (SUBSET Elements) \ {{}} :
    /\ InSection = {}
    /\ \A el \in els : place[el] = "detached"
    /\ stats.totalObserved < MaxObserved
    /\ Mutate([el \in Elements |-> IF el \in els THEN "section" ELSE place[el]],
              ChildList(<<SectionNode(els)>>, <<>>))

\* el.remove()
RemoveElement ==
  \E el \in Elements :
    /\ place[el] \in {"body", "section"}
    /\ Mutate([place EXCEPT ![el] = "detached"], ChildList(<<>>, <<ElementNode(el)>>))

\* section.remove(): the elements inside leave the document with it
RemoveSection ==
  /\ InSection # {}
  /\ Mutate([el \in Elements |-> IF el \in InSection THEN "detached" ELSE place[el]],
            ChildList(<<>>, <<SectionNode(InSection)>>))

\* el.setAttribute('data-aevip-priority', ...) on an element of the document
SetAttribute ==
  /\ \E el \in Elements : place[el] \in {"body", "section"}
  /\ Mutate(place, AttributesRecord)

\* the timer fires: `later` runs the debounced function on the held records
MutationFire ==
  /\ moTimer # <<>>
  /\ SetVS(ForEachMutation(VS, moTimer))
  /\ moTimer' = <<>>
  /\ UNCHANGED <<ioTimer, patches>>
  /\ UNCHANGED <<place, reported, lastSignal>>
  /\ UNCHANGED <<varsP, varsC, varsH, varsD>>

NextMutation ==
  \/ InsertElement
  \/ InsertSection
  \/ RemoveElement
  \/ RemoveSection
  \/ SetAttribute
  \/ MutationFire

(***************************************************************************)
(* The IntersectionObserver with what the host reported and what the       *)
(* handler dispatched.                                                     *)
(***************************************************************************)
\* entry.isIntersecting as the host reports it
Reported(entry) == IF entry.isIntersecting THEN "intersecting" ELSE "not intersecting"

\* the event handleIntersection dispatches on entry.target
visibilityEvent(entry) == IF entry.isIntersecting THEN "aevip:visible" ELSE "aevip:hidden"

RECURSIVE DispatchAll(_, _)
\* the last event dispatched on each element once every entry is handled
DispatchAll(signals, entries) ==
  IF entries = <<>> THEN signals
  ELSE DispatchAll([signals EXCEPT ![Head(entries).target] = visibilityEvent(Head(entries))],
                   Tail(entries))

\* The observer calls the debounced function with an entry for one of its
\* targets.  With threshold [0, 0.25, 0.5, 0.75, 1.0] an entry is produced at
\* every threshold crossing, so isIntersecting need not differ from the
\* entry before.
ReportIntersection ==
  /\ \E entries \in Batches :
       /\ ioTimer' = entries
       /\ reported' = [reported EXCEPT ![entries[1].target] = Reported(entries[1])]
  /\ UNCHANGED <<observedElements, visibleElements, pendingUpdates, stats,
                 ioTargets, patches, applied, observedEvents>>
  /\ UNCHANGED <<place, moTimer, lastSignal>>
  /\ UNCHANGED <<varsP, varsC, varsH, varsD>>

\* the timer fires: `later` runs the debounced function on the held arguments
IntersectionFire ==
  /\ ioTimer # <<>>
  /\ SetVS(ForEachEntry(VS, ioTimer))
  /\ lastSignal' = DispatchAll(lastSignal, ioTimer)
  /\ ioTimer' = <<>>
  /\ UNCHANGED patches
  /\ UNCHANGED <<place, moTimer, reported>>
  /\ UNCHANGED <<varsP, varsC, varsH, varsD>>

NextVisibility ==
  \/ ReportIntersection
  \/ IntersectionFire

(***************************************************************************)
(* AevIPProtocol: configuration.  The constructor merges the caller's       *)
(* config over the defaults; the model is configured with small values of  *)
(* maxRetries and patchQueueSize and the default retryDelays.              *)
(***************************************************************************)
\* config.maxRetries as configured for the model (the default is 4)
heartbeatInterval == 3   \* config.heartbeatInterval (30000 ms) in units of time
MaxClock == 16           \* the clock stops here
maxRetries == 1

retryDelays == <<2000, 4000, 8000, 16000>>

\* config.patchQueueSize as configured for the model (the default is 1000)
patchQueueSize == 2

MaxQueued == 3        \* queuePatch calls
MaxSends == 3         \* sendPatchWithRetry sequences started in all
MaxResumes == 1       \* resume() calls
NumErrors == 1        \* distinct errors the transport rejects with

Errors == 1..NumErrors
NoError == 0

(***************************************************************************)
(* sendPatchWithRetry(patch, attemptNumber = 0).  One record per top-level *)
(* call, numbered by `id`; the recursive calls of the catch block continue *)
(* the same record.                                                        *)
(*   pc          sending: awaiting sendPatch; sleeping: awaiting sleep;    *)
(*               acked: returned the result; abandoned: threw              *)
(*   calls       number of sendPatch calls made for this sequence          *)
(*   onErrorCalls  arguments of the handlers.onError calls it made         *)
(*   promise, thrown  state of the returned promise and its rejection      *)
(*   flush       the flushQueue run awaiting it (0: called by queuePatch)  *)
(***************************************************************************)
sendPatchWithRetry(id, patch, flush) ==
  [id |-> id, patch |-> patch, attemptNumber |-> 0, pc |-> "sending", calls |-> 1,
   delay |-> 0, onErrorCalls |-> <<>>, promise |-> "pending",
   thrown |-> NoError, flush |-> flush]

\* lines 707-709: sendPatch resolved
sendPatchWithRetry_try(sq) ==
  [sq EXCEPT !.pc = "acked", !.promise = "resolved"]

\* variant: one retry fewer before giving up
sendPatchWithRetry_catch_OneLess(sq, error, handler) ==
  IF sq.attemptNumber < maxRetries - 1
  THEN [sq EXCEPT !.pc = "sleeping", !.delay = retryDelays[sq.attemptNumber + 1]]
  ELSE [sq EXCEPT !.pc = "abandoned",
                  !.onErrorCalls = IF handler THEN Append(@, <<error, sq.patch>>) ELSE @,
                  !.promise = "rejected",
                  !.thrown = error]

\* variant: the error is reported to the handler but not thrown
sendPatchWithRetry_catch_Swallow(sq, error, handler) ==
  IF sq.attemptNumber < maxRetries
  THEN [sq EXCEPT !.pc = "sleeping", !.delay = retryDelays[sq.attemptNumber + 1]]
  ELSE [sq EXCEPT !.pc = "abandoned",
                  !.onErrorCalls = IF handler THEN Append(@, <<error, sq.patch>>) ELSE @,
                  !.promise = "resolved"]

\* variant: the retry follows the failure at once
sendPatchWithRetry_catch_NoBackoff(sq, error, handler) ==
  IF sq.attemptNumber < maxRetries
  THEN [sq EXCEPT !.pc = "sleeping", !.delay = 0]
  ELSE [sq EXCEPT !.pc = "abandoned",
                  !.onErrorCalls = IF handler THEN Append(@, <<error, sq.patch>>) ELSE @,
                  !.promise = "rejected",
                  !.thrown = error]

\* lines 710-724: sendPatch rejected with error
sendPatchWithRetry_catch(sq, error, handler) ==
  IF sq.attemptNumber < maxRetries
  THEN [sq EXCEPT !.pc = "sleeping", !.delay = retryDelays[sq.attemptNumber + 1]]
  ELSE [sq EXCEPT !.pc = "abandoned",
                  !.onErrorCalls = IF handler THEN Append(@, <<error, sq.patch>>) ELSE @,
                  !.promise = "rejected",
                  !.thrown = error]

\* variant: the recursive call passes attemptNumber on unchanged
sendPatchWithRetry_retry_SameAttempt(sq) ==
  [sq EXCEPT !.pc = "sending", !.delay = 0]

\* line 716: the sleep is over, sendPatchWithRetry(patch, attemptNumber + 1)
sendPatchWithRetry_retry(sq) ==
  [sq EXCEPT !.attemptNumber = @ + 1, !.pc = "sending", !.calls = @ + 1, !.delay = 0]

(***************************************************************************)
(* flushQueue().  One record per run: the snapshot `queue`, the position   *)
(* `index` of the patch whose sendPatchWithRetry it awaits, and the state  *)
(* of its promise (which is also the promise of resume()).                 *)
(***************************************************************************)
\* variant: the snapshot is taken newest first
flushQueue_Reversed(queue) ==
  IF queue = <<>> THEN [queue |-> queue, index |-> 0, pc |-> "resolved"]
  ELSE [queue |-> [i \in 1..Len(queue) |-> queue[Len(queue) + 1 - i]],
        index |-> 1, pc |-> "running"]

flushQueue(queue) ==
  IF queue = <<>> THEN [queue |-> queue, index |-> 0, pc |-> "resolved"]
  ELSE [queue |-> queue, index |-> 1, pc |-> "running"]

\* the awaited sendPatchWithRetry settled: next iteration of the for loop, or
\* the rejection leaves the loop and rejects flushQueue
flushQueue_next(fl, outcome) ==
  IF outcome = "rejected" THEN [fl EXCEPT !.pc = "rejected"]
  ELSE IF fl.index < Len(fl.queue) THEN [fl EXCEPT !.index = @ + 1]
  ELSE [fl EXCEPT !.pc = "resolved"]

\* variant: on overflow the patch just pushed is the one removed
push_DropNewest(queue, patch) ==
  IF Len(queue) >= patchQueueSize THEN queue ELSE Append(queue, patch)

\* state.patchQueue.push(patch), then shift() when the bound is exceeded
push(queue, patch) ==
  LET q == Append(queue, patch)
  IN IF Len(q) > patchQueueSize THEN Tail(q) ELSE q

\* value of `settled` before any sequence was abandoned
NoSend ==
  [id |-> 0, patch |-> 0, attemptNumber |-> 0, pc |-> "none", calls |-> 0,
   delay |-> 0, onErrorCalls |-> <<>>, promise |-> "pending",
   thrown |-> NoError, flush |-> 0]

InitProtocol ==
  /\ patchQueue = <<>>
  /\ paused = FALSE
  /\ reconnectAttempts = 0
  /\ onError = FALSE
  /\ sends = {}
  /\ started = 0
  /\ settled = NoSend
  /\ acked = {}
  /\ flushes = <<>>
  /\ queued = 0
  /\ held = {}
  /\ detached = {}
  /\ unhandled = FALSE

\* the sequence old continues as sq.  When its promise has settled it leaves
\* `sends`, and the flushQueue run awaiting it, if any, goes on
Settle(old, sq) ==
  LET f == sq.flush
      rest == sends \ {old}
  IN IF sq.promise = "pending"
     THEN /\ sends' = rest \cup {sq}
          /\ UNCHANGED <<started, settled, acked, flushes, detached, unhandled>>
     ELSE /\ settled' = IF sq.pc = "abandoned" THEN sq ELSE settled
          /\ acked' = IF sq.pc = "acked" THEN acked \cup {sq.patch} ELSE acked
          /\ IF f = 0
             THEN /\ sends' = rest
                  /\ UNCHANGED <<started, flushes, detached, unhandled>>
             ELSE LET fl == flushQueue_next(flushes[f], sq.promise)
                  IN /\ flushes' = [flushes EXCEPT ![f] = fl]
                     /\ detached' = IF fl.pc = "running" THEN detached ELSE detached \ {f}
                     /\ unhandled' = (unhandled \/ (f \in detached /\ fl.pc = "rejected"))
                     /\ IF fl.pc = "running"
                        THEN /\ sends' = rest \cup {sendPatchWithRetry(started + 1,
                                                       fl.queue[fl.index], f)}
                             /\ started' = started + 1
                        ELSE /\ sends' = rest
                             /\ started' = started

\* bound of the model: the flushQueue run awaiting sq may start its next
\* sendPatchWithRetry only while fewer than MaxSends sequences were started
HasBudgetWithin(sq, budget) ==
  IF sq.flush = 0 THEN TRUE
  ELSE IF flushes[sq.flush].index = Len(flushes[sq.flush].queue) THEN TRUE
  ELSE started < budget

HasBudget(sq) == HasBudgetWithin(sq, MaxSends)

\* queuePatch(patch), while fewer than budget sequences were started
QueuePatchWithin(budget) ==
  /\ queued < MaxQueued
  /\ started < budget
  /\ LET patch == queued + 1
     IN /\ patchQueue' = push(patchQueue, patch)
        /\ sends' = sends \cup {sendPatchWithRetry(started + 1, patch, 0)}
        /\ held' = IF paused THEN held \cup {patch} ELSE held
  /\ started' = started + 1
  /\ queued' = queued + 1
  /\ UNCHANGED <<paused, reconnectAttempts, onError, settled, acked, flushes, detached,
                 unhandled>>
  /\ UNCHANGED varsV
  /\ UNCHANGED <<varsC, varsD>>
  /\ UNCHANGED <<varsO, varsH>>

\* queuePatch(patch)
QueuePatch == QueuePatchWithin(MaxSends)

\* the transport resolves a sendPatch call
TransportResolveWithin(budget) ==
  /\ \E sq \in sends :
       /\ sq.pc = "sending"
       /\ HasBudgetWithin(sq, budget)
       /\ Settle(sq, sendPatchWithRetry_try(sq))
  /\ reconnectAttempts' = 0
  /\ UNCHANGED <<patchQueue, paused, onError, queued, held>>
  /\ UNCHANGED varsV
  /\ UNCHANGED <<varsC, varsD>>
  /\ UNCHANGED <<varsO, varsH>>

TransportResolve == TransportResolveWithin(MaxSends)

\* the transport rejects a sendPatch call
TransportReject ==
  /\ \E sq \in sends : \E error \in Errors :
       /\ sq.pc = "sending"
       /\ Settle(sq, sendPatchWithRetry_catch(sq, error, onError))
  /\ UNCHANGED <<patchQueue, paused, reconnectAttempts, onError, queued, held>>
  /\ UNCHANGED varsV
  /\ UNCHANGED <<varsC, varsD>>
  /\ UNCHANGED <<varsO, varsH>>

\* Variant: pause() cancels the backoff timers.
SleepElapsed_CancelledByPause ==
  /\ ~paused
  /\ \E sq \in sends :
       /\ sq.pc = "sleeping"
       /\ sends' = (sends \ {sq}) \cup {sendPatchWithRetry_retry(sq)}
  /\ UNCHANGED <<patchQueue, paused, reconnectAttempts, onError, started, settled,
                 acked, flushes, queued, held, detached, unhandled>>
  /\ UNCHANGED varsV
  /\ UNCHANGED <<varsC, varsD>>
  /\ UNCHANGED <<varsO, varsH>>

\* the timer of sleep(delay) fires
SleepElapsed ==
  /\ \E sq \in sends :
       /\ sq.pc = "sleeping"
       /\ sends' = (sends \ {sq}) \cup {sendPatchWithRetry_retry(sq)}
  /\ UNCHANGED <<patchQueue, paused, reconnectAttempts, onError, started, settled,
                 acked, flushes, queued, held, detached, unhandled>>
  /\ UNCHANGED varsV
  /\ UNCHANGED <<varsC, varsD>>
  /\ UNCHANGED <<varsO, varsH>>

\* pause()
Pause ==
  /\ paused' = TRUE
  /\ UNCHANGED <<patchQueue, reconnectAttempts, onError, sends, started, settled,
                 acked, flushes, queued, held, detached, unhandled>>
  /\ UNCHANGED varsV
  /\ UNCHANGED <<varsC, varsD>>
  /\ UNCHANGED <<varsO, varsH>>

\* the callers of resume(): the visibilitychange listener of
\* setupVisibilityDetection, which drops the promise resume() returns, and
\* application code, which receives it.  A promise that has resolved at
\* once (empty queue) needs no holder.
Callers == {"visibilitychange", "application"}

\* resume(): clears the flag and runs flushQueue up to its first await
ResumeWithin(budget) ==
  /\ Len(flushes) < MaxResumes
  /\ patchQueue # <<>> => started < budget
  /\ paused' = FALSE
  /\ held' = {}
  /\ LET fl == flushQueue(patchQueue)
     IN /\ flushes' = Append(flushes, fl)
        /\ \E caller \in Callers :
             detached' = IF caller = "visibilitychange" /\ fl.pc = "running"
                         THEN detached \cup {Len(flushes) + 1}
                         ELSE detached
        /\ IF fl.pc = "running"
           THEN /\ sends' = sends \cup {sendPatchWithRetry(started + 1, fl.queue[1],
                                                          Len(flushes) + 1)}
                /\ started' = started + 1
           ELSE /\ sends' = sends
                /\ started' = started
  /\ patchQueue' = <<>>
  /\ UNCHANGED <<reconnectAttempts, onError, settled, acked, queued, unhandled>>
  /\ UNCHANGED varsV
  /\ UNCHANGED <<varsC, varsD>>
  /\ UNCHANGED <<varsO, varsH>>

Resume == ResumeWithin(MaxSends)

\* on('error', handler)
On ==
  /\ ~onError
  /\ onError' = TRUE
  /\ UNCHANGED <<patchQueue, paused, reconnectAttempts, sends, started, settled,
                 acked, flushes, queued, held, detached, unhandled>>
  /\ UNCHANGED varsV
  /\ UNCHANGED <<varsC, varsD>>
  /\ UNCHANGED <<varsO, varsH>>

NextProtocol ==
  \/ QueuePatch
  \/ TransportResolve
  \/ TransportReject
  \/ SleepElapsed
  \/ Pause
  \/ Resume
  \/ On

(***************************************************************************)
(* The heartbeat timer of AevIPProtocol.                                   *)
(***************************************************************************)
\* now - this.state.lastHeartbeat > this.config.heartbeatInterval
heartbeatDue(now, last) == now - last > heartbeatInterval

\* sendHeartbeat(): sets lastHeartbeat and does nothing else ("to be
\* implemented by transport layer"): no sendPatch, no retry, no handler
sendHeartbeat(now) == now

\* time passes while no callback runs
TimePasses ==
  /\ clock < MaxClock
  /\ clock' = clock + 1
  /\ UNCHANGED <<lastHeartbeat, nextTick, destroyed>>
  /\ UNCHANGED <<varsV, varsP, varsC, varsO, varsD>>

\* the callback of setInterval runs, at its due time or later
HeartbeatTick ==
  /\ clock >= nextTick
  /\ nextTick' = clock + heartbeatInterval
  /\ lastHeartbeat' = IF heartbeatDue(clock, lastHeartbeat)
                      THEN sendHeartbeat(clock)
                      ELSE lastHeartbeat
  /\ UNCHANGED <<clock, destroyed>>
  /\ UNCHANGED <<varsV, varsP, varsC, varsO, varsD>>

NextHeartbeat ==
  \/ TimePasses
  \/ HeartbeatTick

(***************************************************************************)
(* AevIPProtocol.destroy() and what still runs after it.                   *)
(***************************************************************************)
\* destroy(): empties patchQueue and pendingAcks; no clearInterval, no
\* clearTimeout, no flag that the retry sequences or the timer read
Destroy ==
  /\ ~destroyed
  /\ destroyed' = TRUE
  /\ patchQueue' = <<>>
  /\ UNCHANGED <<clock, lastHeartbeat, nextTick>>
  /\ UNCHANGED <<paused, reconnectAttempts, onError, sends, started, settled,
                 acked, flushes, queued, held, detached, unhandled>>
  /\ UNCHANGED <<varsV, varsC, varsO, varsD>>

\* the application calls queuePatch only on a protocol it has not destroyed
QueuePatchAlive ==
  /\ ~destroyed
  /\ QueuePatch

NextTeardown ==
  \/ QueuePatchAlive
  \/ TransportResolve
  \/ TransportReject
  \/ SleepElapsed
  \/ TimePasses
  \/ HeartbeatTick
  \/ Destroy

(***************************************************************************)
(* Diff and apply: a pair of content values, the patch made from it, and   *)
(* its application to the first value and to an element holding it.        *)
(***************************************************************************)
RECURSIVE ReferenceAfter(_, _, _)
\* The object `result` refers to while the loop of applyPatch runs:
\* applyOperation returns `value` (the operation's own value) for an add or
\* replace at the root, `undefined` for a remove at the root, and otherwise
\* the object it was given, written in place.
ReferenceAfter(ref, current, diff) ==
  IF diff = <<>> THEN ref
  ELSE LET operation == Head(diff)
           next == applyOperation(current, operation)
           atRoot == pathParts(operation.path) = <<>>
       IN ReferenceAfter(
            IF IsThrown(next) THEN "thrown"
            ELSE IF atRoot /\ operation.op \in {"add", "replace"}
            THEN IF operation.value.kind = "object" THEN "operation.value"
                 ELSE "primitive"
            ELSE IF atRoot /\ operation.op = "remove" THEN "primitive"
            ELSE ref,
            next, Tail(diff))

\* The object applyPatch(obj, patch) returns: "obj" is the argument itself,
\* "clone" the JSON copy made of it, "operation.value" the value object of
\* an operation of patch.diff; a primitive has no identity.
resultReference(obj, patch) ==
  IF patch.diff.kind # "array"
  THEN IF obj.kind = "object" THEN "obj" ELSE "primitive"
  ELSE LET diff == IF patch.compressed THEN decompress(patch.diff) ELSE patch.diff
           clone == DeepClone(obj)
       IN IF diff.kind = "SyntaxError" THEN "thrown"
          ELSE ReferenceAfter(IF IsThrown(clone) THEN "thrown"
                              ELSE IF clone.kind = "object" THEN "clone"
                              ELSE "primitive",
                              clone, diff.ops)

NoPatch == [diff |-> [kind |-> "none", ops |-> <<>>], compressed |-> FALSE]

NotRun == [kind |-> "pending", prim |-> Undefined, fields |-> NoFields]

\* no content passed yet
InitContent ==
  /\ valBefore = Null
  /\ valAfter = Null
  /\ made = NoPatch
  /\ result = NotRun
  /\ resultRef = "none"
  /\ node = NodeWith(Null)

\* createPatch(valBefore, valAfter)
CreatePatch ==
  /\ made = NoPatch
  /\ made' = createPatch(valBefore, valAfter)
  /\ UNCHANGED <<valBefore, valAfter, result, resultRef, node>>
  /\ UNCHANGED <<varsV, varsP, varsO, varsH, varsD>>

\* { diff: computeDiff(valBefore, valAfter) }
ComputeDiff ==
  /\ made = NoPatch
  /\ made' = PlainPatch(valBefore, valAfter)
  /\ UNCHANGED <<valBefore, valAfter, result, resultRef, node>>
  /\ UNCHANGED <<varsV, varsP, varsO, varsH, varsD>>

\* a patch without diff array arrives
ReceiveMalformed ==
  /\ made = NoPatch
  /\ made' = MalformedPatch
  /\ UNCHANGED <<valBefore, valAfter, result, resultRef, node>>
  /\ UNCHANGED <<varsV, varsP, varsO, varsH, varsD>>

\* applyPatch(valBefore, made)
ApplyPatch ==
  /\ made # NoPatch
  /\ result = NotRun
  /\ result' = applyPatch(valBefore, made)
  /\ resultRef' = resultReference(valBefore, made)
  /\ UNCHANGED <<valBefore, valAfter, made, node>>
  /\ UNCHANGED <<varsV, varsP, varsO, varsH, varsD>>

\* applyPatchToElement(node, made)
ApplyPatchToElement ==
  /\ made # NoPatch
  /\ node.events = <<>>
  /\ node' = applyPatchToElement_dom(node, made)
  /\ UNCHANGED <<valBefore, valAfter, made, result, resultRef>>
  /\ UNCHANGED <<varsV, varsP, varsO, varsH, varsD>>

NextContent ==
  \/ CreatePatch
  \/ ComputeDiff
  \/ ReceiveMalformed
  \/ ApplyPatch
  \/ ApplyPatchToElement

(***************************************************************************)
(* Two targets of one contentId, one visible and one not: handlePatch      *)
(* applies each patch to the visible one and stores it for the other;      *)
(* handleIntersection applies the stored patch when the other one becomes  *)
(* visible.                                                                *)
(***************************************************************************)
MaxPairValue == 1     \* the property values of the pair's content are 1..MaxPairValue
MaxArrivals == 2      \* patches that arrive for the contentId

PairValues ==
  {Null} \cup {Obj(f) : f \in [Keys -> {Undefined} \cup 1..MaxPairValue]}

\* handlePatch(patch) with elements = the two targets: visibleEls are
\* patched at once; if invisibleEls is not empty the patch replaces the
\* entry of pendingUpdates.  The patch is createPatch(before, after), where
\* the sender diffs against the previous value or, as syncToAevIP does for
\* an insert or update, against null.
HandlePatchPair(before, after) ==
  LET patch == createPatch(before, after)
  IN /\ arrivals < MaxArrivals
     /\ arrivals' = arrivals + 1
     /\ latest' = after
     /\ shown' = applyPatchToElement_dom(shown, patch)
     /\ IF revealed
        THEN /\ covered' = applyPatchToElement_dom(covered, patch)
             /\ UNCHANGED deferred
        ELSE /\ deferred' = patch
             /\ UNCHANGED covered
     /\ UNCHANGED revealed
     /\ UNCHANGED <<varsV, varsP, varsC, varsO, varsH>>

PatchArrives ==
  \E after \in PairValues : \E before \in {latest, Null} :
    HandlePatchPair(before, after)

\* handleIntersection for the second target, isIntersecting: it joins
\* visibleElements and applyPendingUpdate applies the stored patch, if any;
\* no other target of the contentId is invisible, so the entry is deleted
RevealHidden ==
  /\ ~revealed
  /\ revealed' = TRUE
  /\ IF deferred = NoPatch
     THEN UNCHANGED <<covered, deferred>>
     ELSE /\ covered' = applyPatchToElement_dom(covered, deferred)
          /\ deferred' = NoPatch
  /\ UNCHANGED <<latest, shown, arrivals>>
  /\ UNCHANGED <<varsV, varsP, varsC, varsO, varsH>>

NextDeferred ==
  \/ PatchArrives
  \/ RevealHidden

(***************************************************************************)
(* Specifications: both objects are constructed; one of them runs.         *)
(***************************************************************************)
\* no mutation and no intersection has been reported yet.  The tree is
\* followed only where mutations are delivered (SpecMutation, which starts
\* from InitTree); elsewhere no step depends on it and it is left untracked.
InitObservers ==
  /\ place = [el \in Elements |-> "untracked"]
  /\ moTimer = <<>>
  /\ reported = [el \in Elements |-> "none"]
  /\ lastSignal = [el \in Elements |-> "none"]

\* constructor: lastHeartbeat = Date.now(); init() starts the interval timer
InitHeartbeat ==
  /\ clock = 0
  /\ lastHeartbeat = 0
  /\ nextTick = heartbeatInterval
  /\ destroyed = FALSE

\* no pair of targets is followed
InitNoPair ==
  /\ latest = Null
  /\ shown = NodeWith(Null)
  /\ covered = NodeWith(Null)
  /\ deferred = NoPatch
  /\ revealed = FALSE
  /\ arrivals = 0

Init ==
  /\ InitViewport /\ InitProtocol /\ InitContent /\ InitObservers /\ InitHeartbeat
  /\ InitNoPair

SpecViewport == Init /\ [][NextViewport]_vars

\* the elements found by the startup scan are children of document.body
InitTree ==
  /\ place = [el \in Elements |->
                IF observedElements[el].registered THEN "body" ELSE "detached"]
  /\ moTimer = <<>>
  /\ reported = [el \in Elements |-> "none"]
  /\ lastSignal = [el \in Elements |-> "none"]

SpecVisibility == Init /\ [][NextVisibility]_vars

InitMutation ==
  /\ InitViewport /\ InitProtocol /\ InitContent /\ InitTree /\ InitHeartbeat
  /\ InitNoPair

\* setTimeout: a timer that is not cleared fires
SpecMutation == InitMutation /\ [][NextMutation]_vars /\ WF_vars(MutationFire)

\* the protocol alone: a document without tagged elements
InitNoElements == Init /\ ioTargets = {}

SpecProtocol == InitNoElements /\ [][NextProtocol]_vars

\* resume() and the flush it runs, with room for one sequence more so that a
\* flush of two patches reaches its second patch
FlushSends == MaxSends + 1

NextFlush ==
  \/ QueuePatchWithin(FlushSends)
  \/ ResumeWithin(FlushSends)
  \/ TransportResolveWithin(FlushSends)
  \/ TransportReject
  \/ SleepElapsed

SpecFlush == InitNoElements /\ [][NextFlush]_vars

\* the send sequences started by queuePatch, without pause() and resume()
NextRetry ==
  \/ QueuePatch
  \/ TransportResolve
  \/ TransportReject
  \/ SleepElapsed
  \/ On

\* fair timers (setTimeout of sleep fires) and a transport that settles every
\* sendPatch call
SpecRetry ==
  /\ InitNoElements
  /\ [][NextRetry]_vars
  /\ WF_vars(SleepElapsed)
  /\ WF_vars(TransportResolve \/ TransportReject)

SpecHeartbeat == InitNoElements /\ [][NextHeartbeat]_vars

SpecTeardown == InitNoElements /\ [][NextTeardown]_vars

\* diff and apply on every pair of content values
InitValues ==
  /\ InitViewport /\ ioTargets = {}
  /\ InitProtocol
  /\ valBefore \in Values
  /\ valAfter \in Values
  /\ made = NoPatch
  /\ result = NotRun
  /\ resultRef = "none"
  /\ node = NodeWith(valBefore)
  /\ InitObservers
  /\ InitHeartbeat
  /\ InitNoPair

\* two registered 'json' targets of one contentId hold the same content; the
\* first is visible, the second is not
InitPair ==
  /\ InitViewport /\ ioTargets = {}
  /\ InitProtocol /\ InitContent /\ InitObservers /\ InitHeartbeat
  /\ latest \in PairValues
  /\ shown = NodeWith(latest)
  /\ covered = NodeWith(latest)
  /\ deferred = NoPatch
  /\ revealed = FALSE
  /\ arrivals = 0

SpecDeferred == InitPair /\ [][NextDeferred]_vars

SpecContent == InitValues /\ [][NextContent]_vars

(***************************************************************************)
(* Properties of the delivery scheduler.                                   *)
(***************************************************************************)
\* the step is the debounced callback, handling the one entry Head(ioTimer)
IsIntersectionStep == ioTimer # <<>> /\ ioTimer' = <<>>

\* the step is one call of handlePatch, for the patch numbered Len(patches')
IsPatchStep == Len(patches') = Len(patches) + 1

\* C1: over any sequence of handlePatch, became-visible and became-hidden
\* events, a given patch is applied to a given target at most once.
C1_AppliedAtMostOnce ==
  \A el \in Elements : \A i, j \in 1..Len(applied[el]) :
    (i < j /\ ~applied[el][i].errored /\ ~applied[el][j].errored)
      => applied[el][i].patch.id # applied[el][j].patch.id

\* C2: when the became-visible event of a registered, invisible target is
\* handled while the table holds a patch for its contentId, that patch is
\* applied to the target, and if it is the only target of the contentId the
\* table entry is gone afterwards.
C2_DeferredDelivered ==
  [][IsIntersectionStep =>
       LET entry == Head(ioTimer)
           el == entry.target
           c == observedElements[el].contentId
       IN (/\ entry.isIntersecting
           /\ observedElements[el].registered
           /\ c # NoContentId
           /\ el \notin visibleElements
           /\ MapHas(pendingUpdates, c))
          => /\ Len(applied'[el]) = Len(applied[el]) + 1
             /\ applied'[el][Len(applied'[el])].patch = MapGet(pendingUpdates, c)
             /\ (ElementsOf(VS, c) = {el} => ~MapHas(pendingUpdates', c))]_varsV

\* a sole target of its contentId that has just received the deferred patch
C2_Witness ==
  \E el \in Elements :
    /\ observedElements[el].registered
    /\ ElementsOf(VS, observedElements[el].contentId) = {el}
    /\ el \in visibleElements
    /\ applied[el] # <<>>
    /\ applied[el][Len(applied[el])].via = "applyPendingUpdate"
    /\ ~MapHas(pendingUpdates, observedElements[el].contentId)

\* C3: the table holds at most one patch per contentId in every reachable
\* state, and a handlePatch for a contentId without visible target leaves
\* the patch just received as the single entry of that contentId.
C3_Coalescing ==
  /\ [](\A c \in ContentIds : Cardinality({pr \in pendingUpdates : pr[1] = c}) <= 1)
  /\ [][IsPatchStep =>
         LET c == patches'[Len(patches')]
         IN (c # NoContentId /\ ElementsOf(VS, c) \cap visibleElements = {})
            => {pr \in pendingUpdates' : pr[1] = c}
                 = {<<c, [id |-> Len(patches'), contentId |-> c]>>}]_varsV

\* two patches of one contentId arrived, nothing was visible, the entry is the second
C3_Witness ==
  /\ Len(patches) = 2
  /\ patches[1] = patches[2]
  /\ patches[1] # NoContentId
  /\ \A el \in Elements : applied[el] = <<>>
  /\ MapHas(pendingUpdates, patches[1])
  /\ MapGet(pendingUpdates, patches[1]).id = 2

\* C4: for every target, the patches of one contentId are applied in the
\* order handlePatch received them: after a patch has been applied to a
\* target, no patch that arrived before it is applied to that target.
C4_ArrivalOrder ==
  \A el \in Elements : \A i, j \in 1..Len(applied[el]) :
    (/\ i < j
     /\ applied[el][i].patch.contentId = applied[el][j].patch.contentId
     /\ ~applied[el][i].errored
     /\ ~applied[el][j].errored)
      => applied[el][i].patch.id <= applied[el][j].patch.id

\* C5: a patch is only ever applied to a target that is in the visible set at
\* the moment of application; handlePatch applies to the visible targets of
\* the contentId only, and the only other application is made by the
\* became-visible handler of the target itself.
C5_AppliedOnlyWhenVisible ==
  /\ [](\A el \in Elements : \A i \in 1..Len(applied[el]) : applied[el][i].visible)
  /\ [][\A el \in Elements :
          applied'[el] # applied[el] =>
            \/ /\ IsPatchStep
               /\ el \in visibleElements
               /\ observedElements[el].contentId = patches'[Len(patches')]
            \/ /\ IsIntersectionStep
               /\ Head(ioTimer) = [target |-> el, isIntersecting |-> TRUE]]_varsV

\* one target has received a patch by each of the two paths
C5_Witness ==
  \E el \in Elements : \E i, j \in 1..Len(applied[el]) :
    /\ applied[el][i].via = "handlePatch"
    /\ applied[el][j].via = "applyPendingUpdate"

\* C18: when applying a patch to one target fails, that target is marked
\* errored and an error signal is emitted for it, every other visible
\* target of the same contentId still receives the patch in the same
\* handlePatch call, and handlePatch runs to its end.
C18_ErrorIsolated ==
  [][IsPatchStep =>
       LET c == patches'[Len(patches')]
           targets == ElementsOf(VS, c) \cap visibleElements
           hidden == ElementsOf(VS, c) \ visibleElements
       IN c # NoContentId =>
            /\ \A el \in targets :
                 LET entry == applied'[el][Len(applied'[el])]
                 IN /\ Len(applied'[el]) = Len(applied[el]) + 1
                    /\ entry.patch.id = Len(patches')
                    /\ ContentOf(el) = Null => (entry.errored /\ entry.signal = "aevip:error")
                    /\ ContentOf(el) # Null => (~entry.errored /\ entry.signal = "aevip:updated")
            /\ stats'.updatesApplied = stats.updatesApplied + Cardinality(targets)
            /\ (targets # {} /\ hidden # {}) => MapHas(pendingUpdates', c)]_varsV

\* one handlePatch call has failed on element 1 and updated its sibling 2
C18_Witness ==
  \E i \in 1..Len(applied[1]) : \E j \in 1..Len(applied[2]) :
    /\ applied[1][i].via = "handlePatch"
    /\ applied[1][i].errored
    /\ applied[1][i].signal = "aevip:error"
    /\ applied[2][j].via = "handlePatch"
    /\ applied[2][j].patch = applied[1][i].patch
    /\ applied[2][j].signal = "aevip:updated"

\* C19: observeElement is idempotent: called on a handle that is already
\* registered it changes nothing (one Registry entry, metadata and
\* visibility fields unchanged, totalObserved not incremented, no second
\* observed signal).
C19_ObserveIdempotent ==
  \A el \in Elements :
    observedElements[el].registered =>
      LET st == observeElement(VS, el)
      IN /\ st.observedElements = observedElements
         /\ st.visibleElements = visibleElements
         /\ st.ioTargets = ioTargets
         /\ st.stats = stats
         /\ st.observedEvents = observedEvents
         /\ st = VS

\* a registered element that has become visible and has a patch applied
C19_Witness ==
  \E el \in Elements :
    /\ observedElements[el].registered
    /\ observedElements[el].isVisible
    /\ el \in visibleElements
    /\ applied[el] # <<>>
    /\ observedEvents = stats.totalObserved
    /\ observeElement(VS, el) = VS

\* C20: unobserveElement(h) removes h from the Registry and from the visible
\* set (and from the intersection observer) and touches nothing else; on a
\* handle that is not registered it leaves the whole state unchanged.
C20_UnobserveFrame ==
  \A el \in Elements :
    LET st == unobserveElement(VS, el)
    IN IF observedElements[el].registered
       THEN /\ ~st.observedElements[el].registered
            /\ el \notin st.visibleElements
            /\ el \notin st.ioTargets
            /\ \A other \in Elements \ {el} :
                 /\ st.observedElements[other] = observedElements[other]
                 /\ other \in st.visibleElements <=> other \in visibleElements
                 /\ other \in st.ioTargets <=> other \in ioTargets
            /\ st.pendingUpdates = pendingUpdates
            /\ st.stats = stats
            /\ st.applied = applied
       ELSE st = VS

\* a visible element was unobserved: the visible set is empty again while
\* stats.currentlyVisible still counts it
C20_Witness ==
  /\ visibleElements = {}
  /\ stats.currentlyVisible > 0
  /\ \E el \in Elements : ~observedElements[el].registered /\ applied[el] # <<>>

\* C23: in every reachable state the visible set is a subset of the
\* Registry, and every member of the Registry got there through
\* observeElement and has not since been unobserved: its entry is the one
\* observeElement made, with the contentId and the priority of the element.
C23_RegistryByObserve ==
  \A el \in Elements :
    /\ el \in visibleElements => observedElements[el].registered
    /\ observedElements[el].registered =>
         /\ observedElements[el].contentId = getAttribute(el)
         /\ observedElements[el].priority = "normal"
         /\ el \in ioTargets

\* C24: handleIntersection writes only visibility fields of an existing
\* target: it never adds or removes a Registry member and never changes a
\* contentId or a priority, even for an event that arrives after the
\* element was unobserved.
C24_IntersectionFrame ==
  [][IsIntersectionStep =>
       \A el \in Elements :
         /\ observedElements'[el].registered = observedElements[el].registered
         /\ observedElements'[el].contentId = observedElements[el].contentId
         /\ observedElements'[el].priority = observedElements[el].priority]_varsV

\* C38: in every reachable state a registered target's isVisible field is
\* true if and only if the target is a member of the visible set.
C38_FlagMatchesVisibleSet ==
  \A el \in Elements :
    observedElements[el].registered =>
      (observedElements[el].isVisible <=> el \in visibleElements)

\* one target made visible by the handler, another registered and not visible
C38_Witness ==
  \E el \in Elements : \E other \in Elements :
    /\ observedElements[el].registered
    /\ observedElements[el].isVisible
    /\ el \in visibleElements
    /\ observedElements[other].registered
    /\ ~observedElements[other].isVisible
    /\ other \notin visibleElements

\* the number of entries of a Map
Size(map) == Cardinality({pair[1] : pair \in map})

\* getStats(): the counters plus the sizes of the table and the Registry
getStats(st) ==
  [totalObserved |-> st.stats.totalObserved,
   currentlyVisible |-> st.stats.currentlyVisible,
   updatesApplied |-> st.stats.updatesApplied,
   updatesDeferred |-> st.stats.updatesDeferred,
   pendingUpdates |-> Size(st.pendingUpdates),
   observedElements |-> Cardinality({el \in Elements : st.observedElements[el].registered})]

\* C39: after every handler, stats.currentlyVisible equals the size of the
\* visible set and getStats().observedElements equals the size of the
\* Registry, including after unobserveElement of a visible target.
C39_StatsMatchSets ==
  /\ getStats(VS).currentlyVisible = Cardinality(visibleElements)
  /\ getStats(VS).observedElements =
       Cardinality({el \in Elements : observedElements[el].registered})

\* the applications on element el that ended with the target marked updated
Successful(el) == SelectSeq(applied[el], LAMBDA a : ~a.errored)

RECURSIVE SumOver(_, _)
SumOver(f, els) ==
  IF els = {} THEN 0
  ELSE LET el == CHOOSE x \in els : TRUE
       IN f[el] + SumOver(f, els \ {el})

\* C40: stats.updatesApplied equals the number of patch applications that
\* completed successfully; an application that ended in the error path is
\* not counted.
C40_UpdatesAppliedCountsSuccess ==
  stats.updatesApplied = SumOver([el \in Elements |-> Len(Successful(el))], Elements)

\* C27: if the table holds an entry for contentId c and at least one target
\* with contentId c is registered, then at least one registered target with
\* contentId c is invisible.
C27_EntryHasInvisibleTarget ==
  \A c \in ContentIds :
    (MapHas(pendingUpdates, c) /\ ElementsOf(VS, c) # {})
      => \E el \in ElementsOf(VS, c) : el \notin visibleElements

\* C30: applyPatch works on a deep copy: the object it returns is neither
\* the input value nor a value held by the patch, so that no later write to
\* the result can reach them; the input and the patch are as they were.
C30_ResultIsCopy ==
  result # NotRun =>
    resultRef \in {"clone", "primitive", "thrown"}

\* C21: every sync-tagged element inserted into the tree and not removed
\* again is eventually registered, even when several mutation batches
\* arrive within one debounce window.
C21_InsertedEventuallyRegistered ==
  \A el \in Elements :
    (place[el] \in {"body", "section"})
      ~> (observedElements[el].registered \/ place[el] = "detached")

\* C22: after a removal mutation has been processed, no sync-tagged element
\* of the removed subtree (the removed node or any of its tagged
\* descendants) remains in the Registry or in the visible set.
C22_RemovedSubtreeUnregistered ==
  [][(moTimer # <<>> /\ moTimer' = <<>>) =>
       \A i \in 1..Len(moTimer) :
         \A j \in 1..Len(moTimer[i].removedNodes) :
           LET n == moTimer[i].removedNodes[j]
           IN \A el \in ({n.element} \ {Section}) \cup n.tagged :
                /\ ~observedElements'[el].registered
                /\ el \notin visibleElements']_vars

\* C25: once visibility events stop arriving and the debounce timer has
\* fired, every registered target's isVisible and its membership of the
\* visible set equal the most recent intersection state the host reported
\* for that target.
C25_SettledMatchesReported ==
  ioTimer = <<>> =>
    \A el \in Elements :
      (observedElements[el].registered /\ reported[el] # "none") =>
        /\ observedElements[el].isVisible = (reported[el] = "intersecting")
        /\ (el \in visibleElements) = (reported[el] = "intersecting")

\* C26: a became-visible signal is emitted for a target only when it crosses
\* from not-visible to visible and a became-hidden signal only when it
\* crosses from visible to not-visible, so for each target the two signals
\* strictly alternate.
C26_SignalsAlternate ==
  [][(ioTimer # <<>> /\ ioTimer' = <<>>) =>
       LET entry == Head(ioTimer)
           target == entry.target
       IN /\ lastSignal'[target] = "aevip:visible" => target \notin visibleElements
          /\ lastSignal'[target] = "aevip:hidden" => target \in visibleElements
          /\ lastSignal'[target] # lastSignal[target]]_vars

(***************************************************************************)
(* Properties of the sync protocol.                                        *)
(***************************************************************************)
\* the step makes a call of the transport's sendPatch for patch p: a sequence
\* for p starts, or one that was sleeping calls again
NewCall(p) ==
  \E sq \in sends' :
    /\ sq.patch = p
    /\ \A old \in sends : old.id = sq.id => sq.calls > old.calls

\* C6: a sendPatchWithRetry sequence all of whose sendPatch calls reject makes
\* exactly maxRetries+1 calls, all of them before onError is invoked, and
\* none after.
C6_RetryBound ==
  /\ [](/\ \A sq \in sends : sq.calls <= maxRetries + 1 /\ sq.onErrorCalls = <<>>
        /\ settled.pc = "abandoned" => settled.calls = maxRetries + 1
        /\ settled.onErrorCalls # <<>> => settled.pc = "abandoned")
  /\ [][\A sq \in sends' : sq.id # settled'.id /\ (sq.id > started => sq.calls = 1)]_vars

\* a sequence started by queuePatch has given up and told the handler
C6_Witness ==
  /\ settled.pc = "abandoned"
  /\ settled.flush = 0
  /\ settled.calls = maxRetries + 1
  /\ Len(settled.onErrorCalls) = 1

\* C7: patches passed to queuePatch while paused=true cause no call to the
\* transport sendPatch until resume() is called.
C7_HeldNotSent == [][\A p \in held' : ~NewCall(p)]_vars

\* C8: after resume(), every patch that was in patchQueue at the moment of
\* the call is handed to sendPatchWithRetry by the flush, whatever the
\* outcome of the patches flushed before it: a flush that has ended has
\* handed over its whole snapshot.
C8_FlushHandsAll ==
  \A f \in 1..Len(flushes) :
    flushes[f].pc # "running" => flushes[f].index = Len(flushes[f].queue)

\* C9: acked is terminal: once the transport has acknowledged a patch, that
\* patch is never passed to sendPatch again, including by a later resume().
C9_AckedIsTerminal == [][\A p \in acked : ~NewCall(p)]_vars

\* C10: when a patch exhausts its retries, the onError handler (if one is
\* registered) is invoked exactly once with (error, patch), the promise of
\* the sequence rejects with that error, and so does the flush awaiting it.
C10_ExhaustionReported ==
  /\ [](settled.pc = "abandoned" =>
          /\ settled.promise = "rejected"
          /\ settled.thrown \in Errors
          /\ Len(settled.onErrorCalls) <= 1
          /\ \A i \in 1..Len(settled.onErrorCalls) :
               settled.onErrorCalls[i] = <<settled.thrown, settled.patch>>
          /\ settled.flush # 0 => flushes[settled.flush].pc = "rejected")
  /\ [][(settled' # settled /\ settled'.pc = "abandoned" /\ onError)
          => Len(settled'.onErrorCalls) = 1]_vars

\* a sequence has given up: handler called once with the thrown error and the patch
C10_Witness ==
  /\ settled.pc = "abandoned"
  /\ settled.promise = "rejected"
  /\ settled.onErrorCalls = << <<settled.thrown, settled.patch>> >>

\* C11: a patch whose retries are exhausted is no longer a member of
\* patchQueue once its sendPatchWithRetry has rejected.
C11_AbandonedLeavesQueue ==
  settled.pc = "abandoned" =>
    \A i \in 1..Len(patchQueue) : patchQueue[i] # settled.patch

\* C28: pause() does not cancel an in-flight retry: for every sequence that
\* is sleeping in backoff while the protocol is paused, the step in which
\* its delay elapses is possible and performs the next sendPatch call.
C28_PauseKeepsRetry ==
  \A sq \in sends :
    (paused /\ sq.pc = "sleeping")
      => ENABLED (/\ SleepElapsed
                  /\ \E next \in sends' :
                       /\ next.id = sq.id
                       /\ next.pc = "sending"
                       /\ next.calls = sq.calls + 1)

\* A patch queued after pause() (no resume() since) whose sequence has
\* already made a retry call: the backoff elapsed while paused.
C28_Witness ==
  /\ paused
  /\ \E sq \in sends :
       /\ sq.patch \in held
       /\ sq.pc = "sending"
       /\ sq.attemptNumber >= 1

\* C32: two patches for the same contentId queued in the order p1, p2
\* (patches are numbered in the order of their queuePatch calls) are never
\* acknowledged in the opposite order: the transport does not acknowledge
\* p1 after it has acknowledged p2.
C32_AckOrder ==
  [][\A p1 \in acked' \ acked : \A p2 \in acked : p1 > p2]_vars

\* C35: flushQueue sends the snapshot of the queue strictly in FIFO order
\* and one at a time: while a flush runs exactly one sequence belongs to it,
\* for the patch at its index; the index moves on by one, and only in the
\* step in which that sequence settles; the snapshot is the queue as it was
\* at resume() and never changes; a patch queued during the flush goes to
\* the fresh queue.
C35_FlushFifo ==
  /\ [](\A f \in 1..Len(flushes) :
          LET fl == flushes[f]
              mine == {sq \in sends : sq.flush = f}
          IN IF fl.pc = "running"
             THEN /\ Cardinality(mine) = 1
                  /\ \A sq \in mine : sq.patch = fl.queue[fl.index]
             ELSE mine = {})
  /\ [][/\ \A f \in 1..Len(flushes) :
            /\ flushes'[f].queue = flushes[f].queue
            /\ flushes'[f].index \in {flushes[f].index, flushes[f].index + 1}
            /\ flushes'[f].index # flushes[f].index =>
                 /\ \A old \in sends : old.flush = f =>
                       \A sq \in sends' : sq.id # old.id
                 /\ \A sq \in sends' : sq.flush = f => sq.calls = 1
        /\ Len(flushes') > Len(flushes) =>
            /\ flushes'[Len(flushes')].queue = patchQueue
            /\ patchQueue' = <<>>
        /\ queued' # queued =>
            /\ flushes' = flushes
            /\ patchQueue' = push(patchQueue, queued')]_vars

\* a flush of two patches has reached its second patch
C35_Witness ==
  \E f \in 1..Len(flushes) :
    /\ flushes[f].pc = "running"
    /\ Len(flushes[f].queue) = 2
    /\ flushes[f].index = 2
    /\ flushes[f].queue[1] # flushes[f].queue[2]

\* C36: deferred delivery converges: of two targets with the same contentId
\* and the same initial content, one visible throughout and one invisible
\* while patches arrive, the second holds the content of the first once it
\* has become visible.
C36_DeferredConverges ==
  revealed => getElementContent(covered) = getElementContent(shown)

\* C37: after AevIPProtocol.destroy() the protocol makes no further
\* sendPatch or heartbeat calls: sleeping retry sequences and the heartbeat
\* timer do not act after teardown.
C37_QuietAfterDestroy ==
  [][destroyed =>
       /\ \A sq \in sends' : \A old \in sends :
             old.id = sq.id => sq.calls = old.calls
       /\ lastHeartbeat' = lastHeartbeat]_vars

C34_SequenceTerminates ==
  /\ \A id \in 1..MaxSends :
       (\E sq \in sends : sq.id = id) ~> (\A sq \in sends : sq.id # id)
  /\ [](\A sq \in sends : sq.calls <= maxRetries + 1 /\ sq.promise = "pending")

\* a sequence went through every retry and was abandoned, and none is left
C34_Witness ==
  /\ sends = {}
  /\ started = MaxSends
  /\ settled.pc = "abandoned"
  /\ settled.calls = maxRetries + 1
  /\ acked # {}

\* a call of the transport hook sendPatch happens in the step
TransportCalled == \E sq \in sends' : sq \notin sends

\* C29: on every heartbeat timer tick a heartbeat is sent through the
\* transport hook exactly when the time since lastHeartbeat exceeds
\* heartbeatInterval, and a heartbeat never starts a retry/backoff sequence
\* or invokes onError.
C29_HeartbeatSentWhenDue ==
  [][nextTick' # nextTick =>
       /\ TransportCalled = heartbeatDue(clock, lastHeartbeat)
       /\ \A sq \in sends' : sq.pc # "sleeping" \/ sq \in sends
       /\ settled' = settled]_vars

\* C12: the queue never holds more than patchQueueSize patches, and it holds
\* the patches queued last, in the order of their queuePatch calls: a push
\* onto a full queue evicts the oldest patch.
C12_QueueBound ==
  /\ Len(patchQueue) <= patchQueueSize
  /\ \A i \in 1..Len(patchQueue) : patchQueue[i] = queued - Len(patchQueue) + i

\* a queuePatch call has overflowed the queue: patch 1 is gone, the rest is kept
C12_Witness ==
  /\ queued = patchQueueSize + 1
  /\ Len(patchQueue) = patchQueueSize
  /\ patchQueue[1] = 2
  /\ patchQueue[patchQueueSize] = queued

\* C13: no failure path ends in an unhandled promise rejection: the promise
\* of a resume() called by the visibilitychange listener, which nobody
\* holds, never rejects.
C13_NoUnhandledRejection == ~unhandled

(***************************************************************************)
(* Properties of diff and apply.                                           *)
(***************************************************************************)
\* C14: for all values before and after with fields at most one level deep,
\* null included, applyPatch(before, {diff: computeDiff(before, after)})
\* equals after.
C14_RoundTrip ==
  (made = PlainPatch(valBefore, valAfter) /\ result # NotRun) => result = valAfter

\* the operations of the diff that address key k
OperationsAt(ops, k) == SelectSeq(ops, LAMBDA o : o.path = <<"/", k>>)

\* C15: on two keyed structures computeDiff emits, per key, exactly one
\* operation: add with the after value if the key is only in after, remove
\* if it is only in before, replace with the after value if it is in both
\* with unequal values, and none if equal; on two primitives a single
\* replace at the empty path if they differ and nothing otherwise; and
\* diff({a:1,b:2},{a:1,b:3,c:4}) = [replace /b 3, add /c 4].
C15_DiffPerKey ==
  made = PlainPatch(valBefore, valAfter) =>
    LET ops == made.diff.ops
        b == valBefore
        a == valAfter
    IN /\ (b.kind = "object" /\ a.kind = "object") =>
            /\ \A i \in 1..Len(ops) : \E k \in Keys : ops[i].path = <<"/", k>>
            /\ \A k \in Keys :
                 OperationsAt(ops, k) =
                   IF b.fields[k] = Undefined /\ a.fields[k] # Undefined
                   THEN <<[op |-> "add", path |-> <<"/", k>>, value |-> Prim(a.fields[k])]>>
                   ELSE IF b.fields[k] # Undefined /\ a.fields[k] = Undefined
                   THEN <<[op |-> "remove", path |-> <<"/", k>>, value |-> UndefinedValue]>>
                   ELSE IF b.fields[k] # a.fields[k]
                   THEN <<[op |-> "replace", path |-> <<"/", k>>, value |-> Prim(a.fields[k])]>>
                   ELSE <<>>
       /\ (b.kind = "number" /\ a.kind = "number") =>
            ops = IF b.prim # a.prim
                  THEN <<[op |-> "replace", path |-> <<>>, value |-> a]>>
                  ELSE <<>>
       /\ (/\ b = Obj([k \in Keys |-> CASE k = "a" -> 1 [] k = "b" -> 2 [] OTHER -> Undefined])
           /\ a = Obj([k \in Keys |-> CASE k = "a" -> 1 [] k = "b" -> 3 [] OTHER -> 4]))
            => ops = <<[op |-> "replace", path |-> <<"/", "b">>, value |-> Prim(3)],
                       [op |-> "add", path |-> <<"/", "c">>, value |-> Prim(4)]>>

\* the diff of a pair of objects with an added, a removed and a replaced key
C15_Witness ==
  /\ made = PlainPatch(valBefore, valAfter)
  /\ valBefore.kind = "object"
  /\ valAfter.kind = "object"
  /\ {made.diff.ops[i].op : i \in 1..Len(made.diff.ops)} = {"add", "remove", "replace"}

C16_CompressionTransparent ==
  (made = createPatch(valBefore, valAfter) /\ result # NotRun) =>
    /\ made.compressed = (DiffLength(computeDiff(valBefore, valAfter)) > compressionThreshold)
    /\ result = applyPatch(valBefore, PlainPatch(valBefore, valAfter))

\* C17: a patch without diff array is rejected at apply time: applyPatch
\* returns the input value unchanged, the content of the target is left
\* unmodified, and the target is not reported as successfully updated.
C17_MalformedRejected ==
  made = MalformedPatch =>
    /\ result # NotRun => result = valBefore
    /\ node.content = valBefore
    /\ ~node.updated
    /\ "aevip-updated" \notin node.classList
    /\ \A i \in 1..Len(node.events) : node.events[i] # "aevip:updated"

====
